---------------------------- MODULE Spec2Model ----------------------------
(***************************************************************************)
(* Model of lynicis/ulak-api:                                              *)
(*   - the two cache-aside read endpoints (handlers/fetch-contents.ts and  *)
(*     the fetch-followings handler), with the Redis cache and the search  *)
(*     index they share;                                                   *)
(*   - the schedule evaluator shouldSendNewsletter of the send-emails      *)
(*     handler;                                                            *)
(*   - the hourly send-emails batch run.                                   *)
(*                                                                         *)
(* Strings that end up inside a colon-separated key are modelled as the    *)
(* sequence of their colon-free segments ("a:b" is <<"a","b">>, "" is      *)
(* <<"">>), so `${x}:${y}` is the concatenation of the two sequences and   *)
(* two keys are equal exactly when the strings are.  An optional value is  *)
(* a sequence of length 0 (undefined) or 1.                                *)
(***************************************************************************)
EXTENDS Integers, Sequences, FiniteSets, TLC

VARIABLES
    now,            \* wall clock, in hours since the epoch of the calendar below
    hourCycle,      \* how the runtime's Intl formats hour 0 under hour12:false
    redis,          \* the cache: key -> [value, expiresAt]
    index,          \* the search index "followings": id -> content
    reqs,           \* the read requests in flight, one record per slot
    nstarted,       \* number of read requests started so far
    settled,        \* history: key -> the last write of the key and, once the
                    \* read that wrote it has answered 200, the body it returned
    ev,             \* one evaluation of shouldSendNewsletter in progress
    batch           \* the state of the send-emails run

vars == <<now, hourCycle, redis, index, reqs, nstarted, settled, ev, batch>>

(***************************************************************************)
(* Bounds of the model.                                                    *)
(***************************************************************************)
MaxInFlight == 2
MaxRequests == 2
MaxTicks == 2
TickHours == 12

(***************************************************************************)
(* Time.                                                                   *)
(***************************************************************************)
SecondsPerHour == 60 * 60
TtlSecondsMutant == 48 * 60 * 60

\* { ex: 24 * 60 * 60 }
TTL_SECONDS == 24 * 60 * 60

NowSeconds == now * SecondsPerHour

\* new Date()
NewDate == [type |-> "Date", t |-> now]

\* JSON.stringify of a Date gives its ISO string; of a string, the string.
ToJSON(v) == IF v.type = "Date" THEN [type |-> "string", t |-> v.t] ELSE v

TruthyMutant(v) == FALSE

\* a non-empty string is truthy
Truthy(v) == v.type \in {"Date", "string"}

(***************************************************************************)
(* Optional values and strings.                                            *)
(***************************************************************************)
Undefined == <<>>
Some(x) == <<x>>
IsDefined(o) == Len(o) > 0
Val(o) == o[1]

Null == [kind |-> "null"]

(***************************************************************************)
(* Request inputs.                                                         *)
(***************************************************************************)
PlatformKeys == {"MEDIUM", "X", "INSTAGRAM"}
\* the (platformName, username) path parameters of the requests of the model
Targets ==
    {<<"MEDIUM", <<"alice">>>>, <<"MEDIUM", <<"bob">>>>, <<"X", <<"alice">>>>,
     <<"medium", <<"alice">>>>}
SinceParams == {Undefined, Some(<<"today">>)}
SearchParams == {Undefined, Some("car")}

\* what the platform can answer
FollowingsChoices == {<<"dave">>, <<"carol", "dave">>}
ContentChoices == {<<>>, <<"post1">>}

\* String.prototype.trim on the search parameters of the model
Trim(s) == IF s = " " THEN "" ELSE s

\* Upstash Search free-text match of a query against a document
QueryMatches(q, content) ==
    \/ q = "car" /\ content.username \in {"carol", "carl"}
    \/ q = content.username

SchemaOkMutant(platformName) == TRUE

\* z.enum(["MEDIUM", "X", "INSTAGRAM"]) on pathParameters.platformName
SchemaOk(platformName) == platformName \in PlatformKeys

FOLLOWINGS_KEY_PREFIX == <<"followings">>

FollowingsKey(platformName, username) ==
    FOLLOWINGS_KEY_PREFIX \o <<platformName>> \o username

\* event.queryStringParameters?.since || "all"
SinceOrAll(since) ==
    IF IsDefined(since) /\ Val(since) # <<"">> THEN Val(since) ELSE <<"all">>

ContentsKey(platformName, username, since) ==
    <<"contents">> \o <<platformName>> \o username \o since

(***************************************************************************)
(* The cache (Upstash Redis).                                              *)
(***************************************************************************)
Live(k) == k \in DOMAIN redis /\ NowSeconds < redis[k].expiresAt

\* redis.get: the stored value, or null
RedisGet(k) == IF Live(k) THEN redis[k].value ELSE Null

\* redis.set(key, value, { ex }): the value is stored as JSON
RedisSetMutant(k, items, fetchedAt, ex) ==
    [x \in DOMAIN redis \cup {k} |->
        IF x = k
        THEN [value |-> [kind |-> "entry", items |-> items,
                         fetchedAt |-> ToJSON(fetchedAt)],
              expiresAt |-> NowSeconds + (ex \div 60)]
        ELSE redis[x]]

RedisSetFirstWinsMutant(k, items, fetchedAt, ex) ==
    [x \in DOMAIN redis \cup {k} |->
        IF x = k /\ ~Live(k)
        THEN [value |-> [kind |-> "entry", items |-> items,
                         fetchedAt |-> ToJSON(fetchedAt)],
              expiresAt |-> NowSeconds + ex]
        ELSE redis[x]]

RedisSet(k, items, fetchedAt, ex) ==
    [x \in DOMAIN redis \cup {k} |->
        IF x = k
        THEN [value |-> [kind |-> "entry", items |-> items,
                         fetchedAt |-> ToJSON(fetchedAt)],
              expiresAt |-> NowSeconds + ex]
        ELSE redis[x]]

(***************************************************************************)
(* The search index (Upstash Search).                                      *)
(***************************************************************************)
DocId(platformName, username, following) ==
    <<platformName>> \o username \o <<following>>

Range(s) == {s[i] : i \in 1..Len(s)}

StoreFollowingsForSearchMutant(platformName, username, followings) == index

\* storeFollowingsForSearch: index.upsert of one document per following
StoreFollowingsForSearch(platformName, username, followings) ==
    LET ids == {DocId(platformName, username, f) : f \in Range(followings)}
        content(id) ==
            LET f == CHOOSE g \in Range(followings) :
                         DocId(platformName, username, g) = id
            IN  [username |-> f, platformName |-> platformName,
                 parentUsername |-> username]
    IN  [id \in DOMAIN index \cup ids |->
            IF id \in ids THEN content(id) ELSE index[id]]

\* the filter of searchFollowings
SearchFilterMutant(platformName, username, content) ==
    content.platformName = platformName

SearchFilter(platformName, username, content) ==
    /\ content.platformName = platformName
    /\ content.parentUsername = username

\* index.search: the ids of the documents the query returns
SearchHits(platformName, username, searchQuery) ==
    {id \in DOMAIN index :
        /\ QueryMatches(searchQuery, index[id])
        /\ SearchFilter(platformName, username, index[id])}

RECURSIVE SetToSeq(_)
SetToSeq(S) ==
    IF S = {} THEN <<>>
    ELSE LET x == CHOOSE y \in S : TRUE
         IN  <<x>> \o SetToSeq(S \ {x})

\* searchFollowings: the hits mapped to FollowingUser
SearchFollowings(platformName, username, searchQuery) ==
    LET hits == SetToSeq(SearchHits(platformName, username, searchQuery))
    IN  [i \in 1..Len(hits) |-> index[hits[i]].username]

(***************************************************************************)
(* Read requests.  Every await of a handler is a step of its own, so that  *)
(* requests in different slots interleave as concurrent Lambda invocations *)
(* do.  ops is the sequence of collaborator calls the request has made,    *)
(* failed the call that threw, if one did.                                 *)
(***************************************************************************)
Slots == 1..MaxInFlight

IdleReq == [pc |-> "idle"]

Rejected(message) ==
    \* the handler's promise rejects: no response of its own (API Gateway
    \* answers 502 for it)
    [statusCode |-> 502, body |-> [kind |-> "rejected", message |-> message]]

BadRequest ==
    [statusCode |-> 400, body |-> [kind |-> "error", error |-> "validation"]]

NotFound ==
    [statusCode |-> 404, body |-> [kind |-> "error", error |-> "user not found"]]

InternalError(message) ==
    [statusCode |-> 500,
     body |-> [kind |-> "error", error |-> "internal_error", message |-> message]]

\* statusCode 200 with JSON.stringify({ contents | followings, fetchedAt })
Ok(items, fetchedAt) ==
    [statusCode |-> 200,
     body |-> [kind |-> "entry", items |-> items, fetchedAt |-> ToJSON(fetchedAt)]]

ReqKey(r) ==
    IF r.endpoint = "followings"
    THEN FollowingsKey(r.platformName, r.username)
    ELSE ContentsKey(r.platformName, r.username, r.since)

HasSearch(r) == IsDefined(r.searchQuery) /\ Val(r.searchQuery) # ""

\* if (cachedContents) / if (cachedFollowings)
IsHitMutant(cached) == FALSE

IsHit(cached) == cached # Null

Finish(r, response) == [r EXCEPT !.pc = "done", !.response = response]

\* The request arrives and its path parameters are validated.
StartRequest(s, endpoint, platformName, username, since, search) ==
    /\ reqs[s].pc = "idle"
    /\ \A t \in 1..(s - 1) : reqs[t].pc # "idle"
    /\ nstarted < MaxRequests
    /\ nstarted' = nstarted + 1
    /\ LET r0 == [pc |-> "start", endpoint |-> endpoint,
                  platformName |-> platformName, username |-> username,
                  since |-> IF endpoint = "contents" THEN SinceOrAll(since)
                            ELSE <<>>,
                  searchQuery |-> IF endpoint = "followings" /\ IsDefined(search)
                                  THEN Some(Trim(Val(search))) ELSE Undefined,
                  cached |-> Null, items |-> <<>>, fetchedAt |-> NewDate,
                  hits |-> {}, response |-> Null, ops |-> <<>>,
                  id |-> nstarted + 1, exists |-> "unknown",
                  held |-> Null, prior |-> Null, failed |-> ""]
           k == ReqKey(r0)
           r1 == [r0 EXCEPT !.held = RedisGet(k),
                            !.prior = IF k \in DOMAIN settled /\ settled[k].done
                                      THEN settled[k] ELSE Null]
       IN  reqs' = [reqs EXCEPT ![s] =
                IF ~SchemaOk(platformName) THEN Finish(r1, BadRequest)
                ELSE IF endpoint = "followings" THEN [r1 EXCEPT !.pc = "exists"]
                ELSE [r1 EXCEPT !.pc = "get"]]
    /\ UNCHANGED <<now, hourCycle, redis, index, settled, ev, batch>>

UserExistsMutant(s) ==
    /\ reqs[s].pc = "exists"
    /\ \E outcome \in {"true", "false", "throw"} :
         reqs' = [reqs EXCEPT ![s] =
                    [@ EXCEPT !.ops = Append(@, "isUserExists"),
                              !.exists = outcome, !.pc = "get"]]
    /\ UNCHANGED <<now, hourCycle, redis, index, nstarted, settled, ev, batch>>

\* fetchingStrategy.isUserExists(username), outside any try
UserExists(s) ==
    /\ reqs[s].pc = "exists"
    /\ \E outcome \in {"true", "false", "throw"} :
         LET r == [reqs[s] EXCEPT !.ops = Append(@, "isUserExists"),
                                  !.exists = outcome]
         IN  reqs' = [reqs EXCEPT ![s] =
                CASE outcome = "true" -> [r EXCEPT !.pc = "get"]
                  [] outcome = "false" -> Finish(r, NotFound)
                  [] OTHER -> Finish([r EXCEPT !.failed = "isUserExists"],
                                     Rejected("isUserExists"))]
    /\ UNCHANGED <<now, hourCycle, redis, index, nstarted, settled, ev, batch>>

CacheGetMutant(s) ==
    /\ reqs[s].pc = "get"
    /\ LET r0 == reqs[s]
           k == ReqKey(r0)
           cached == RedisGet(k)
           r == [r0 EXCEPT !.ops = Append(@, "redis.get"), !.cached = cached]
       IN  /\ reqs' = [reqs EXCEPT ![s] =
                IF ~IsHit(cached) THEN [r EXCEPT !.pc = "fetch"]
                ELSE IF HasSearch(r) THEN [r EXCEPT !.pc = "search"]
                ELSE Finish(r, Ok(cached.items, cached.fetchedAt))]
           /\ redis' = IF IsHit(cached)
                       THEN [redis EXCEPT ![k].expiresAt = NowSeconds + TTL_SECONDS]
                       ELSE redis
    /\ UNCHANGED <<now, hourCycle, index, nstarted, settled, ev, batch>>

\* redis.get of the request's key
CacheGet(s) ==
    /\ reqs[s].pc = "get"
    /\ LET r0 == reqs[s]
           cached == RedisGet(ReqKey(r0))
           r == [r0 EXCEPT !.ops = Append(@, "redis.get"), !.cached = cached]
       IN  reqs' = [reqs EXCEPT ![s] =
                IF ~IsHit(cached) THEN [r EXCEPT !.pc = "fetch"]
                ELSE IF HasSearch(r) THEN [r EXCEPT !.pc = "search"]
                ELSE Finish(r, Ok(cached.items, cached.fetchedAt))]
    /\ UNCHANGED <<now, hourCycle, redis, index, nstarted, settled, ev, batch>>

\* searchFollowings, in the branch with a cache entry and after a live fetch
Search(s) ==
    /\ reqs[s].pc = "search"
    /\ LET r0 == reqs[s]
           q == Val(r0.searchQuery)
           results == SearchFollowings(r0.platformName, r0.username, q)
           r == [r0 EXCEPT !.ops = Append(@, "index.search"),
                           !.hits = {index[id] : id \in
                                     SearchHits(r0.platformName, r0.username, q)}]
       IN  reqs' = [reqs EXCEPT ![s] =
                IF ~IsHit(r.cached) THEN Finish(r, Ok(results, r.fetchedAt))
                ELSE IF Len(results) > 0 \/ Truthy(r.cached.fetchedAt)
                THEN Finish(r, Ok(results, r.cached.fetchedAt))
                ELSE [r EXCEPT !.pc = "fetch"]]
    /\ UNCHANGED <<now, hourCycle, redis, index, nstarted, settled, ev, batch>>

\* getFollowings / fetchContent, then new Date()
Fetch(s) ==
    /\ reqs[s].pc = "fetch"
    /\ LET r0 == reqs[s]
           isF == r0.endpoint = "followings"
           r == [r0 EXCEPT !.ops = Append(@, IF isF THEN "getFollowings"
                                             ELSE "fetchContent")]
       IN  \E outcome \in {"ok", "throw"} :
           \E items \in IF isF THEN FollowingsChoices ELSE ContentChoices :
             /\ outcome = "throw" => items = <<>>
             /\ reqs' = [reqs EXCEPT ![s] =
                  IF outcome = "ok"
                  THEN [r EXCEPT !.pc = "set", !.items = items,
                                 !.fetchedAt = NewDate]
                  ELSE IF isF
                  THEN Finish([r EXCEPT !.failed = "getFollowings"],
                              InternalError("getFollowings"))
                  ELSE Finish([r EXCEPT !.failed = "fetchContent"],
                              Rejected("fetchContent"))]
    /\ UNCHANGED <<now, hourCycle, redis, index, nstarted, settled, ev, batch>>

\* redis.set(key, { items, fetchedAt }, { ex: 24 * 60 * 60 })
CacheSet(s) ==
    /\ reqs[s].pc = "set"
    /\ LET r0 == reqs[s]
           isF == r0.endpoint = "followings"
           k == ReqKey(r0)
           r == [r0 EXCEPT !.ops = Append(@, "redis.set")]
       IN  \E outcome \in {"ok", "throw"} :
             IF outcome = "ok"
             THEN /\ redis' = RedisSet(k, r.items, r.fetchedAt, TTL_SECONDS)
                  /\ settled' = [x \in DOMAIN settled \cup {k} |->
                        IF x = k
                        THEN [writer |-> r.id, at |-> now, done |-> FALSE,
                              body |-> Null]
                        ELSE settled[x]]
                  /\ reqs' = [reqs EXCEPT ![s] =
                        IF isF THEN [r EXCEPT !.pc = "upsert"]
                        ELSE Finish(r, Ok(r.items, r.fetchedAt))]
             ELSE /\ UNCHANGED <<redis, settled>>
                  /\ reqs' = [reqs EXCEPT ![s] =
                        LET f == [r EXCEPT !.failed = "redis.set"]
                        IN  IF isF THEN Finish(f, InternalError("redis.set"))
                            ELSE Finish(f, Rejected("redis.set"))]
    /\ UNCHANGED <<now, hourCycle, index, nstarted, ev, batch>>

\* storeFollowingsForSearch(platformName, username, followings)
Upsert(s) ==
    /\ reqs[s].pc = "upsert"
    /\ LET r0 == reqs[s]
           r == [r0 EXCEPT !.ops = Append(@, "index.upsert")]
       IN  \E outcome \in {"ok", "throw"} :
             IF outcome = "ok"
             THEN /\ index' = StoreFollowingsForSearch(r.platformName,
                                                       r.username, r.items)
                  /\ reqs' = [reqs EXCEPT ![s] =
                        IF HasSearch(r) THEN [r EXCEPT !.pc = "search"]
                        ELSE Finish(r, Ok(r.items, r.fetchedAt))]
             ELSE /\ UNCHANGED index
                  /\ reqs' = [reqs EXCEPT ![s] =
                        Finish([r EXCEPT !.failed = "index.upsert"],
                               InternalError("index.upsert"))]
    /\ UNCHANGED <<now, hourCycle, redis, nstarted, settled, ev, batch>>

\* The response is handed to the caller and the invocation ends.  A read
\* without search query that missed, wrote the cache and answered 200
\* settles its key, unless another request wrote the key after it.
Return(s) ==
    /\ reqs[s].pc = "done"
    /\ LET r == reqs[s]
           k == ReqKey(r)
       IN  settled' =
             IF /\ r.response.statusCode = 200
                /\ ~HasSearch(r)
                /\ k \in DOMAIN settled
                /\ settled[k].writer = r.id
             THEN [settled EXCEPT ![k].done = TRUE, ![k].body = r.response.body]
             ELSE settled
    /\ reqs' = [reqs EXCEPT ![s] = IdleReq]
    /\ UNCHANGED <<now, hourCycle, redis, index, nstarted, ev, batch>>

\* Time passes; Redis drops the entries whose TTL has run out.
Tick ==
    /\ now + TickHours <= MaxTicks * TickHours
    /\ now' = now + TickHours
    /\ LET live == {k \in DOMAIN redis :
                       (now + TickHours) * SecondsPerHour < redis[k].expiresAt}
       IN  redis' = [k \in live |-> redis[k]]
    /\ UNCHANGED <<hourCycle, index, reqs, nstarted, settled, ev, batch>>

EmptyMap == [x \in {} |-> Null]

IdleEv == [pc |-> "idle"]
IdleBatch == [pc |-> "idle"]

Init ==
    /\ now = 0
    /\ hourCycle = "h23"
    /\ redis = EmptyMap
    /\ index = EmptyMap
    /\ reqs = [s \in Slots |-> IdleReq]
    /\ nstarted = 0
    /\ settled = EmptyMap
    /\ ev = IdleEv
    /\ batch = IdleBatch

Next ==
    \/ \E s \in Slots, target \in Targets :
         \/ \E since \in SinceParams :
              StartRequest(s, "contents", target[1], target[2], since, Undefined)
         \/ \E search \in SearchParams :
              StartRequest(s, "followings", target[1], target[2], Undefined, search)
    \/ \E s \in Slots : UserExists(s)
    \/ \E s \in Slots : CacheGet(s)
    \/ \E s \in Slots : Search(s)
    \/ \E s \in Slots : Fetch(s)
    \/ \E s \in Slots : CacheSet(s)
    \/ \E s \in Slots : Upsert(s)
    \/ \E s \in Slots : Return(s)
    \/ Tick

Spec == Init /\ [][Next]_vars

(***************************************************************************)
(* The schedule evaluator of the send-emails handler.                      *)
(*                                                                         *)
(* Hour 0 of the clock is 2023-12-31T00:00Z, a Sunday.  A local day is     *)
(* numbered from 2023-12-30 (day 0), so that zones west of UTC stay in     *)
(* range; the calendar covers December 30 2023 to February 29 2024.        *)
(***************************************************************************)
MaxDay == 9
MaxDrift == 1
FebruaryFirst == 31 + 1

Timezones == {"UTC", "America/New_York", "Asia/Tokyo"}

\* offset from UTC in hours (January: no daylight saving time)
UtcOffset(timezone) ==
    CASE timezone = "UTC" -> 0
      [] timezone = "America/New_York" -> -5
      [] timezone = "Asia/Tokyo" -> 9

LocalHours(t, timezone) == t + UtcOffset(timezone) + 24
LocalHour(t, timezone) == LocalHours(t, timezone) % 24
LocalDay(t, timezone) == LocalHours(t, timezone) \div 24
\* 0 = Sunday
LocalWeekday(t, timezone) == (LocalDay(t, timezone) + 6) % 7
LocalDayOfMonth(t, timezone) ==
    LET d == LocalDay(t, timezone)
    IN  IF d <= 1 THEN 30 + d ELSE IF d <= 32 THEN d - 1 ELSE d - 32

Numerals ==
    <<"0", "1", "2", "3", "4", "5", "6", "7", "8", "9", "10", "11", "12",
      "13", "14", "15", "16", "17", "18", "19", "20", "21", "22", "23", "24",
      "25", "26", "27", "28", "29", "30", "31">>

TwoDigits ==
    <<"00", "01", "02", "03", "04", "05", "06", "07", "08", "09", "10", "11",
      "12", "13", "14", "15", "16", "17", "18", "19", "20", "21", "22", "23">>

\* parseInt of a decimal numeral
ParseInt(str) == CHOOSE n \in 0..(Len(Numerals) - 1) : Numerals[n + 1] = str

\* Number("09") = 9
ToNumber(str) == CHOOSE n \in 0..(Len(TwoDigits) - 1) : TwoDigits[n + 1] = str

\* Intl.DateTimeFormat("en-US", { timeZone, hour: "numeric", hour12: false }):
\* for en-US, hour12: false selects the hour cycle h23 or, on runtimes that
\* follow the older ECMA-402 rule, h24, which writes midnight as "24".
FormatHour(t, timezone) ==
    LET h == LocalHour(t, timezone)
    IN  IF h = 0 /\ hourCycle = "h24" THEN "24" ELSE Numerals[h + 1]

\* Intl.DateTimeFormat("en-US", { timeZone, weekday: "short" })
FormatWeekday(t, timezone) ==
    <<"Sun", "Mon", "Tue", "Wed", "Thu", "Fri", "Sat">>[LocalWeekday(t, timezone) + 1]

\* Intl.DateTimeFormat("en-US", { timeZone, day: "numeric" })
FormatDay(t, timezone) == Numerals[LocalDayOfMonth(t, timezone) + 1]

dayMap == [Sun |-> 0, Mon |-> 1, Tue |-> 2, Wed |-> 3, Thu |-> 4, Fri |-> 5, Sat |-> 6]

\* t is the instant the function's new Date() returns
GetCurrentHourInTimezone(t, timezone) == ParseInt(FormatHour(t, timezone))

GetCurrentDayInTimezone(t, timezone) == dayMap[FormatWeekday(t, timezone)]

GetCurrentDayOfMonthInTimezone(t, timezone) == ParseInt(FormatDay(t, timezone))

\* sendTime is "HH:MM", here <<"HH", "MM">> (its split on ":")
SendHour(sendTime) == ToNumber(sendTime[1])

\* a schedule evaluation that remembers the first run of the hour
ShouldSendNewsletterMutant(frequency, sendTime, timezone, tHour, tDay) ==
    /\ batch.run = "first"
    /\ GetCurrentHourInTimezone(tHour, timezone) = SendHour(sendTime)
    /\ \/ frequency = "daily"
       \/ frequency = "weekly" /\ GetCurrentDayInTimezone(tDay, timezone) = 1
       \/ frequency = "monthly"
             /\ GetCurrentDayOfMonthInTimezone(tDay, timezone) = 1

\* shouldSendNewsletter; tHour and tDay are the instants of its first and
\* of its second clock read
ShouldSendNewsletter(frequency, sendTime, timezone, tHour, tDay) ==
    LET sendHour == SendHour(sendTime)
        currentHour == GetCurrentHourInTimezone(tHour, timezone)
    IN  IF currentHour # sendHour THEN FALSE
        ELSE IF frequency = "daily" THEN TRUE
        ELSE IF frequency = "weekly"
             THEN GetCurrentDayInTimezone(tDay, timezone) = 1
        ELSE IF frequency = "monthly"
             THEN GetCurrentDayOfMonthInTimezone(tDay, timezone) = 1
        ELSE FALSE

Frequencies == {"daily", "weekly", "monthly"}
SendTimes == {<<TwoDigits[h + 1], mm>> : h \in 0..23, mm \in {"00", "30"}}
SchedDays == 0..MaxDay \cup {FebruaryFirst}
SchedInstants == {24 * d + h : d \in SchedDays, h \in 0..23}

\* One call of shouldSendNewsletter; the clock may pass an hour boundary
\* between its two reads.
Evaluate(frequency, sendTime, timezone) ==
    /\ ev.pc = "idle"
    /\ \E drift \in 0..MaxDrift :
         /\ now' = now + drift
         /\ ev' = [pc |-> "done", frequency |-> frequency, sendTime |-> sendTime,
                   timezone |-> timezone, tHour |-> now, tDay |-> now + drift,
                   result |-> ShouldSendNewsletter(frequency, sendTime, timezone,
                                                   now, now + drift)]
    /\ UNCHANGED <<hourCycle, redis, index, reqs, nstarted, settled, batch>>

SchedInit ==
    /\ now \in SchedInstants
    /\ hourCycle \in {"h23", "h24"}
    /\ redis = EmptyMap
    /\ index = EmptyMap
    /\ reqs = [s \in Slots |-> IdleReq]
    /\ nstarted = 0
    /\ settled = EmptyMap
    /\ ev = IdleEv
    /\ batch = IdleBatch

SchedNext ==
    \E frequency \in Frequencies, sendTime \in SendTimes, timezone \in Timezones :
        Evaluate(frequency, sendTime, timezone)

SchedSpec == SchedInit /\ [][SchedNext]_vars

(***************************************************************************)
(* The send-emails run.                                                    *)
(*                                                                         *)
(* JavaScript values whose type the code depends on are tagged: an array   *)
(* is [js |-> "array", items |-> <<...>>], a parsed response body is       *)
(* [js |-> "object", ...]; a number is [isNaN, n].                         *)
(***************************************************************************)
MaxPrefs == 3

JsArray(items) == [js |-> "array", items |-> items]
Num(n) == [isNaN |-> FALSE, n |-> n]
NaN == [isNaN |-> TRUE, n |-> 0]

\* The rows of newsletter_preferences_view with newsletter_enabled.  The
\* platform column is a string of the database: the DTO's union type
\* ("medium" | "instagram" | "x") is a compile-time cast (overrideTypes),
\* so a row may also hold the spelling the content endpoint accepts.
Pref(email, user_id, platform, username, frequency, send_time) ==
    [email |-> email, user_id |-> user_id, platform |-> platform,
     username |-> username, frequency |-> frequency, send_time |-> send_time,
     timezone |-> "UTC"]

PrefPool ==
    {Pref("a@example.com", "u1", "MEDIUM", <<"alice">>, "daily", <<"09", "00">>),
     Pref("a@example.com", "u1", "medium", <<"bob">>, "weekly", <<"09", "00">>),
     Pref("b@example.com", "u2", "MEDIUM", <<"bob">>, "daily", <<"09", "30">>),
     Pref("b@example.com", "u2", "medium", <<"alice">>, "monthly", <<"09", "00">>)}

\* the tables the run can find: lists of distinct rows
PrefLists ==
    {l \in UNION {[1..n -> PrefPool] : n \in 0..MaxPrefs} :
        \A i, j \in 1..Len(l) : i # j => l[i] # l[j]}

\* Monday 2024-01-08 08:00Z and 09:00Z, Tuesday 2024-01-09 09:00Z
BatchInstants == {200, 201, 225}

SkippedRecordMutant(pref, i) ==
    [email |-> pref.email, user_id |-> pref.user_id, status |-> "failed",
     followings_count |-> 0, total_contents_count |-> Num(0),
     platforms |-> {pref.platform}, frequency |-> pref.frequency,
     timezone |-> pref.timezone, send_time |-> pref.send_time, pref |-> i]

\* the "skipped" record of the filter; pref is the row's position (history)
SkippedRecord(pref, i) ==
    [email |-> pref.email, user_id |-> pref.user_id, status |-> "skipped",
     followings_count |-> 0, total_contents_count |-> Num(0),
     platforms |-> {pref.platform}, frequency |-> pref.frequency,
     timezone |-> pref.timezone, send_time |-> pref.send_time, pref |-> i]

RECURSIVE GroupByUserMutant(_)
GroupByUserMutant(prefs) ==
    IF prefs = <<>> THEN <<>>
    ELSE LET n == Len(prefs)
             rest == GroupByUserMutant(SubSeq(prefs, 1, n - 1))
             pref == prefs[n]
         IN  IF \E g \in 1..Len(rest) : rest[g].email = pref.email
             THEN [g \in 1..Len(rest) |->
                     IF rest[g].email = pref.email
                     THEN [rest[g] EXCEPT !.preferences = <<pref>>]
                     ELSE rest[g]]
             ELSE Append(rest, [email |-> pref.email, preferences |-> <<pref>>])

\* groupedByUser: the Map from email to its preferences, in insertion order
RECURSIVE GroupByUser(_)
GroupByUser(prefs) ==
    IF prefs = <<>> THEN <<>>
    ELSE LET n == Len(prefs)
             rest == GroupByUser(SubSeq(prefs, 1, n - 1))
             pref == prefs[n]
         IN  IF \E g \in 1..Len(rest) : rest[g].email = pref.email
             THEN [g \in 1..Len(rest) |->
                     IF rest[g].email = pref.email
                     THEN [rest[g] EXCEPT !.preferences = Append(@, pref)]
                     ELSE rest[g]]
             ELSE Append(rest, [email |-> pref.email, preferences |-> <<pref>>])

\* f.contents.length
ContentsLength(contents) ==
    IF contents.js = "array" THEN Num(Len(contents.items)) ELSE NaN

RECURSIVE TotalContents(_)
\* followings.reduce((sum, f) => sum + f.contents.length, 0)
TotalContents(followings) ==
    IF followings = <<>> THEN Num(0)
    ELSE LET n == Len(followings)
             sum == TotalContents(SubSeq(followings, 1, n - 1))
             len == ContentsLength(followings[n].contents)
         IN  IF sum.isNaN \/ len.isNaN THEN NaN ELSE Num(sum.n + len.n)

\* NewsletterEmail maps over following.contents of every following: a
\* contents that is no array makes it throw
RenderThrows(followings) ==
    \E i \in 1..Len(followings) : followings[i].contents.js # "array"

Subject(totalContents) ==
    IF ~totalContents.isNaN /\ totalContents.n > 0
    THEN <<"Your Content Digest:", totalContents.n,
           IF totalContents.n = 1 THEN "update" ELSE "updates">>
    ELSE <<"Your Content Digest">>

\* [...new Set(followings.map(f => f.platform))]
PlatformsOf(followings) == {followings[i].platform : i \in 1..Len(followings)}

OutcomeRecord(email, userPref, status, followings, error) ==
    [email |-> email, user_id |-> userPref.user_id, status |-> status,
     error_message |-> error,
     followings_count |-> Len(followings),
     total_contents_count |-> TotalContents(followings),
     platforms |-> PlatformsOf(followings), frequency |-> userPref.frequency,
     timezone |-> userPref.timezone, send_time |-> userPref.send_time,
     pref |-> 0]

\* the callbacks of Promise.allSettled run for every recipient
SendEnabledMutant(g) ==
    /\ batch.sendResults[g] = Null
    /\ \A h \in DOMAIN batch.sendResults :
          batch.sendResults[h] # Null => batch.sendResults[h].success

SendEnabled(g) == batch.sendResults[g] = Null

SendsSettledMutant == TRUE

\* await Promise.allSettled(...): every callback has returned
SendsSettled == \A g \in DOMAIN batch.sendResults : ~SendEnabled(g)

\* successCount of the sendResults.forEach
SuccessCountMutant(results) ==
    Cardinality({g \in DOMAIN results : results[g] # Null})

SuccessCount(results) ==
    Cardinality({g \in DOMAIN results :
                    results[g] # Null /\ results[g].success})

ErrorsMutant(results) == <<>>

\* errors of the sendResults.forEach, in the order of emailData
Errors(results) ==
    LET failed == {g \in DOMAIN results :
                      results[g] # Null /\ ~results[g].success}
        F[g \in 0..Len(results)] ==
            IF g = 0 THEN <<>>
            ELSE IF g \in failed
                 THEN Append(F[g - 1], [email |-> results[g].email,
                                        error |-> results[g].error])
                 ELSE F[g - 1]
    IN  F[Len(results)]

BatchDone(b, statusCode, body) ==
    [b EXCEPT !.pc = "done",
              !.response = [statusCode |-> statusCode, body |-> body]]

\* supabase.from("newsletter_preferences_view").select("*").eq(...)
LoadPreferences ==
    /\ batch.pc = "load"
    /\ \E outcome \in {"ok", "error"} :
         batch' =
            IF outcome = "error"
            THEN BatchDone(batch, 500,
                     [error |-> "Failed to fetch newsletter preferences"])
            ELSE IF Len(batch.db) = 0
            THEN BatchDone(batch, 200, [message |-> "No newsletters to send"])
            ELSE [batch EXCEPT !.pc = "filter",
                               !.newsletterPreferences = batch.db]
    /\ UNCHANGED <<now, hourCycle, redis, index, reqs, nstarted, settled, ev>>

\* One call of the filter callback, and what follows the filter once the
\* last preference has been judged.
FilterPreference ==
    /\ batch.pc = "filter"
    /\ \E drift \in 0..MaxDrift :
         /\ now + drift <= batch.startedAt + MaxDrift
         /\ now' = now + drift
         /\ LET i == batch.i
                pref == batch.newsletterPreferences[i]
                shouldSend == ShouldSendNewsletter(pref.frequency, pref.send_time,
                                                   pref.timezone, now, now + drift)
                b1 == [batch EXCEPT
                         !.i = i + 1,
                         !.analyticsData =
                            IF shouldSend THEN @
                            ELSE Append(@, SkippedRecord(pref, i)),
                         !.preferencesToSend =
                            IF shouldSend THEN Append(@, pref) ELSE @,
                         !.due = IF shouldSend THEN @ \cup {i} ELSE @]
                groups == GroupByUser(b1.preferencesToSend)
            IN  batch' =
                  IF i < Len(batch.newsletterPreferences) THEN b1
                  ELSE IF Len(b1.preferencesToSend) = 0
                  THEN BatchDone(b1, 200,
                         [message |-> "No newsletters scheduled for this time"])
                  ELSE [b1 EXCEPT
                          !.pc = "retrieve",
                          !.groupedByUser = groups,
                          !.followingsResults =
                             [g \in 1..Len(groups) |->
                                [j \in 1..Len(groups[g].preferences) |-> Null]]]
    /\ UNCHANGED <<hourCycle, redis, index, reqs, nstarted, settled, ev>>

\* The content endpoint (handlers/fetch-contents.ts) serving one GET, as the
\* batch sees it: the response, and the cache after it.
EndpointMiss(platformName, username, since, items) ==
    [response |-> Ok(items, NewDate),
     redis |-> RedisSet(ContentsKey(platformName, username, since), items,
                        NewDate, TTL_SECONDS)]

ContentsEndpoint(platformName, username, sinceParam, upstream, items) ==
    LET since == SinceOrAll(sinceParam)
        cached == RedisGet(ContentsKey(platformName, username, since))
    IN  IF ~SchemaOk(platformName)
        THEN [response |-> BadRequest, redis |-> redis]
        ELSE IF IsHit(cached)
        THEN [response |-> Ok(cached.items, cached.fetchedAt), redis |-> redis]
        ELSE IF upstream = "throw"
        THEN [response |-> Rejected("fetchContent"), redis |-> redis]
        ELSE EndpointMiss(platformName, username, since, items)

\* resp.ok
RespOk(response) == response.statusCode >= 200 /\ response.statusCode <= 299

\* resp.json(): the parsed body { contents, fetchedAt }
RespJson(response) ==
    [js |-> "object", contents |-> JsArray(response.body.items),
     fetchedAt |-> response.body.fetchedAt]

\* One callback of the inner Promise.allSettled: getContentsByPlatformAndUsername
\* with since=today, and the try/catch around it.  ok, status and served are
\* history: whether the retrieval succeeded, the status the endpoint answered
\* and the items it returned.
RetrieveContents(g, j) ==
    /\ batch.pc = "retrieve"
    /\ batch.followingsResults[g][j] = Null
    /\ LET pref == batch.groupedByUser[g].preferences[j]
       IN  \E upstream \in {"ok", "throw"}, items \in ContentChoices :
             /\ upstream = "throw" => items = <<>>
             /\ LET call == ContentsEndpoint(pref.platform, pref.username,
                                             Some(<<"today">>), upstream, items)
                    ok == RespOk(call.response)
                    contents == IF ok THEN RespJson(call.response)
                                ELSE JsArray(<<>>)
                    result == [username |-> pref.username,
                               platform |-> pref.platform,
                               contents |-> contents,
                               ok |-> ok,
                               status |-> call.response.statusCode,
                               served |-> IF ok THEN call.response.body.items
                                          ELSE <<>>]
                    results == [batch.followingsResults EXCEPT ![g][j] = result]
                    finished == \A h \in DOMAIN results :
                                   \A k \in DOMAIN results[h] :
                                      results[h][k] # Null
                IN  /\ redis' = call.redis
                    /\ batch' =
                         IF ~finished
                         THEN [batch EXCEPT !.followingsResults = results]
                         ELSE [batch EXCEPT
                                 !.followingsResults = results,
                                 !.pc = "send",
                                 !.emailData =
                                    [h \in DOMAIN results |->
                                       [email |-> batch.groupedByUser[h].email,
                                        followings |-> results[h]]],
                                 !.sendResults = [h \in DOMAIN results |-> Null]]
    /\ UNCHANGED <<now, hourCycle, index, reqs, nstarted, settled, ev>>

\* One callback of the outer Promise.allSettled over emailData: render,
\* ses.send, and the analytics record of the recipient.
SendEmail(g) ==
    /\ batch.pc = "send"
    /\ SendEnabled(g)
    /\ LET email == batch.emailData[g].email
           followings == batch.emailData[g].followings
           userPref == batch.groupedByUser[g].preferences[1]
           rendered == ~RenderThrows(followings)
       IN  \E ses \in {"ok", "throw"} :
             /\ ~rendered => ses = "ok"
             /\ LET success == rendered /\ ses = "ok"
                    error == IF ~rendered
                             THEN "following.contents.map is not a function"
                             ELSE IF ses = "throw" THEN "ses.send failed"
                             ELSE ""
                IN  batch' = [batch EXCEPT
                        !.sendResults[g] =
                            [email |-> email, success |-> success, error |-> error],
                        !.attempts = Append(@, email),
                        !.sesCalls =
                            IF rendered
                            THEN Append(@, [to |-> email,
                                            subject |-> Subject(TotalContents(followings)),
                                            followings |-> followings])
                            ELSE @,
                        !.faults = IF success THEN @ ELSE @ \cup {email},
                        !.analyticsData =
                            Append(@, OutcomeRecord(email, userPref,
                                        IF success THEN "sent" ELSE "failed",
                                        followings, error))]
    /\ UNCHANGED <<now, hourCycle, redis, index, reqs, nstarted, settled, ev>>

\* trackBatchEmailAnalytics: the insert's error is logged, its exception
\* caught; the function returns either way
TrackBatchEmailAnalyticsMutant(insert) ==
    IF insert = "throw" THEN "thrown" ELSE "returned"

TrackBatchEmailAnalytics(insert) == "returned"

\* The count of the results, trackBatchEmailAnalytics and the summary.
\* insertCalls is history: the rows of every insert into email_analytics
\* and how it ended.
Summarize ==
    /\ batch.pc = "send"
    /\ SendsSettled
    /\ LET errors == Errors(batch.sendResults)
           successCount == SuccessCount(batch.sendResults)
           failureCount == Len(errors)
           track == Len(batch.analyticsData) > 0
       IN  \E insert \in {"ok", "error", "throw"} :
             LET tracking == IF track THEN TrackBatchEmailAnalytics(insert)
                             ELSE "returned"
                 done == IF tracking = "thrown"
                         THEN BatchDone(batch, 502,
                                 [kind |-> "rejected", message |-> "insert"])
                         ELSE BatchDone(batch,
                                 IF Len(errors) > 0 THEN 207 ELSE 200,
                                 [processed |-> Len(batch.emailData),
                                  successCount |-> successCount,
                                  failureCount |-> failureCount,
                                  errors |-> IF Len(errors) > 0 THEN Some(errors)
                                             ELSE Undefined])
             IN  batch' = [done EXCEPT
                      !.tracked = IF track /\ insert = "ok"
                                  THEN batch.analyticsData ELSE <<>>,
                      !.insertCalls =
                          IF track
                          THEN Append(@, [rows |-> batch.analyticsData,
                                          outcome |-> insert])
                          ELSE @]
    /\ UNCHANGED <<now, hourCycle, redis, index, reqs, nstarted, settled, ev>>

\* The state of a run at the invocation of the handler.  run and prev are
\* history: whether this is the first or the second firing of the trigger,
\* and what the first run judged due, attempted and sent.
NewRun(db, run, prev) ==
    [pc |-> "load", db |-> db, startedAt |-> now,
     newsletterPreferences |-> <<>>, i |-> 1,
     analyticsData |-> <<>>, preferencesToSend |-> <<>>,
     due |-> {}, groupedByUser |-> <<>>,
     followingsResults |-> <<>>, emailData |-> <<>>,
     sendResults |-> <<>>, attempts |-> <<>>, sesCalls |-> <<>>,
     faults |-> {}, tracked |-> <<>>, insertCalls |-> <<>>,
     response |-> Null, run |-> run, prev |-> prev]

\* The scheduled trigger fires a second time within the hour of the first
\* run: the handler is invoked again, over the same table.
Rerun ==
    /\ batch.pc = "done"
    /\ batch.run = "first"
    /\ now = batch.startedAt
    /\ batch' = NewRun(batch.db, "second",
                       [due |-> batch.due,
                        filtered |-> batch.i > Len(batch.db),
                        attempts |-> Range(batch.attempts),
                        sent |-> {batch.sesCalls[k].to :
                                     k \in 1..Len(batch.sesCalls)}
                                 \ batch.faults])
    /\ UNCHANGED <<now, hourCycle, redis, index, reqs, nstarted, settled, ev>>

BatchInit ==
    /\ now \in BatchInstants
    /\ hourCycle \in {"h23", "h24"}
    /\ redis = EmptyMap
    /\ index = EmptyMap
    /\ reqs = [s \in Slots |-> IdleReq]
    /\ nstarted = 0
    /\ settled = EmptyMap
    /\ ev = IdleEv
    /\ \E db \in PrefLists : batch = NewRun(db, "first", Null)

\* the steps of one run of the handler
BatchRun ==
    \/ LoadPreferences
    \/ FilterPreference
    \/ \E g \in DOMAIN batch.followingsResults :
         \E j \in DOMAIN batch.followingsResults[g] : RetrieveContents(g, j)
    \/ \E g \in DOMAIN batch.sendResults : SendEmail(g)
    \/ Summarize

BatchNext ==
    \/ BatchRun
    \/ Rerun

BatchSpec == BatchInit /\ [][BatchNext]_vars

\* One run under the assumption that every external call returns or fails:
\* the awaited step of the handler is eventually taken.
BatchFairSpec == BatchInit /\ [][BatchRun]_vars /\ WF_vars(BatchRun)

(***************************************************************************)
(* Properties of the read endpoints.                                       *)
(***************************************************************************)
Called(r, op) == \E i \in 1..Len(r.ops) : r.ops[i] = op

\* the cache held the same entry under the request's key from the arrival
\* of the request until now
HeldThroughout(r) == r.held # Null /\ RedisGet(ReqKey(r)) = r.held

PlainRead(r) ==
    /\ r.pc # "idle"
    /\ SchemaOk(r.platformName)
    /\ ~HasSearch(r)

PassedExistence(r) == r.endpoint = "followings" => r.exists = "true"

\* C1 as stated: a read (contents, or followings without search query) of a
\* key the cache holds an entry for returns exactly the cached items and
\* fetchedAt, and calls nothing of the upstream fetcher.
C1_HitCallsNoUpstream ==
    \A s \in Slots :
        LET r == reqs[s]
        IN  (PlainRead(r) /\ HeldThroughout(r)) =>
                /\ ~Called(r, "isUserExists")
                /\ ~Called(r, "getFollowings")
                /\ ~Called(r, "fetchContent")
                /\ r.pc = "done" =>
                      r.response.statusCode = 200 /\ r.response.body = r.held

\* C1 amended: the same, where a followings read first passes the existence
\* check; the list fetch and the content fetch are never called, and the
\* answer is 200 with exactly the cached items and fetchedAt.
C1_HitReturnsCachedEntry ==
    \A s \in Slots :
        LET r == reqs[s]
        IN  (PlainRead(r) /\ HeldThroughout(r)) =>
                /\ ~Called(r, "getFollowings")
                /\ ~Called(r, "fetchContent")
                /\ (r.pc = "done" /\ PassedExistence(r)) =>
                      r.response.statusCode = 200 /\ r.response.body = r.held

\* C1 witness: a followings read without search query that passed the
\* existence check and was answered from an entry written at an earlier time.
C1_Witness ==
    \E s \in Slots :
        LET r == reqs[s]
        IN  /\ PlainRead(r) /\ HeldThroughout(r)
            /\ r.pc = "done"
            /\ r.endpoint = "followings"
            /\ r.exists = "true"
            /\ r.held.fetchedAt.t < now
            /\ r.response.body = r.held

\* a read without search query of this key missed, wrote the cache and
\* answered 200 before this request arrived; nobody wrote the key since and
\* fewer than 24 h have passed since that write
AfterSettledMiss(r) ==
    /\ PlainRead(r)
    /\ r.prior # Null
    /\ ReqKey(r) \in DOMAIN settled
    /\ settled[ReqKey(r)] = r.prior
    /\ NowSeconds < r.prior.at * SecondsPerHour + 24 * 60 * 60

\* C2 as stated: the second read is a hit, returns the items and fetchedAt
\* of the first read and makes no list or content fetch.
C2_SecondReadIsHit ==
    \A s \in Slots :
        LET r == reqs[s]
        IN  AfterSettledMiss(r) =>
                /\ ~Called(r, "getFollowings")
                /\ ~Called(r, "fetchContent")
                /\ r.pc = "done" =>
                      /\ r.response.statusCode = 200
                      /\ r.response.body = r.prior.body

\* C2 amended: the same, where a second followings read again passes the
\* existence check.
C2_SecondReadIsHitIfUserExists ==
    \A s \in Slots :
        LET r == reqs[s]
        IN  AfterSettledMiss(r) =>
                /\ ~Called(r, "getFollowings")
                /\ ~Called(r, "fetchContent")
                /\ (r.pc = "done" /\ PassedExistence(r)) =>
                      /\ r.response.statusCode = 200
                      /\ r.response.body = r.prior.body

C2_Witness ==
    \E s \in Slots :
        LET r == reqs[s]
        IN  /\ AfterSettledMiss(r)
            /\ r.pc = "done"
            /\ r.endpoint = "followings"
            /\ r.exists = "true"
            /\ r.prior.at < now
            /\ r.response.body = r.prior.body
            /\ Len(r.response.body.items) > 0

\* C9: whatever the shared index holds, the documents a followings search
\* returns all carry the requested platform as platformName and the
\* requested username as parentUsername, and the followings answered are
\* the usernames of exactly those documents.
C9_SearchStaysWithinParent ==
    \A s \in Slots :
        LET r == reqs[s]
        IN  (r.pc # "idle" /\ Called(r, "index.search")) =>
                /\ \A d \in r.hits :
                      /\ d.platformName = r.platformName
                      /\ d.parentUsername = r.username
                /\ r.pc = "done" =>
                      /\ r.response.statusCode = 200
                      /\ Range(r.response.body.items) =
                            {d.username : d \in r.hits}

\* C9 witness: a search answered with a following while the index also holds
\* a document matching the query under another parent username.
C9_Witness ==
    \E s \in Slots :
        LET r == reqs[s]
        IN  /\ r.pc = "done"
            /\ Called(r, "index.search")
            /\ r.hits # {}
            /\ \E id \in DOMAIN index :
                  /\ QueryMatches(Val(r.searchQuery), index[id])
                  /\ index[id].platformName = r.platformName
                  /\ index[id].parentUsername # r.username

(***************************************************************************)
(* Properties of the schedule evaluator.                                   *)
(***************************************************************************)
Evaluated(frequency) == ev.pc = "done" /\ ev.frequency = frequency

HourMatches == LocalHour(ev.tHour, ev.timezone) = SendHour(ev.sendTime)

\* C6: a daily preference is due exactly when the hour of day in the
\* recipient's timezone equals the hour of sendTime, for every send hour
\* 0..23, whatever the weekday, the day of month and the minutes of sendTime.
C6_DailyDueExactlyAtSendHour ==
    Evaluated("daily") => (ev.result <=> HourMatches)

\* C7: a weekly preference is due if and only if the local hour equals the
\* send hour and the local weekday is Monday.
C7_WeeklyDueExactlyMondayAtSendHour ==
    Evaluated("weekly") =>
        (ev.result <=> (HourMatches /\ LocalWeekday(ev.tHour, ev.timezone) = 1))

\* C8: a monthly preference is due if and only if the local hour equals the
\* send hour and the local day of month is 1.
C8_MonthlyDueExactlyFirstAtSendHour ==
    Evaluated("monthly") =>
        (ev.result <=> (HourMatches /\ LocalDayOfMonth(ev.tHour, ev.timezone) = 1))

(***************************************************************************)
(* Properties of the send-emails run.                                      *)
(***************************************************************************)
\* the run went through the send stage and returned its summary
SendStageDone == batch.pc = "done" /\ Len(batch.emailData) > 0

\* the recipients with a preference the filter judged due
DueEmails == {batch.db[i].email : i \in batch.due}

\* the due preferences of a recipient, in the order of the table
DuePrefsOf(email) ==
    LET idx == SelectSeq([i \in 1..Len(batch.db) |-> i],
                         LAMBDA i : i \in batch.due /\ batch.db[i].email = email)
    IN  [k \in 1..Len(idx) |-> batch.db[idx[k]]]

\* the positions in analyticsData of the sent or failed outcomes of a recipient
OutcomesOf(email) ==
    {k \in 1..Len(batch.analyticsData) :
        /\ batch.analyticsData[k].email = email
        /\ batch.analyticsData[k].status \in {"sent", "failed"}}

Count(seq, x) == Cardinality({k \in 1..Len(seq) : seq[k] = x})

SesCallsTo(email) == {k \in 1..Len(batch.sesCalls) : batch.sesCalls[k].to = email}

\* C3: with N distinct due recipients of which exactly K sends fail, the
\* summary reports successCount = N - K and failureCount = K, and the run
\* produces exactly N outcomes with status sent or failed, one per recipient.
C3_CountsMatchFailedSends ==
    SendStageDone =>
        LET N == Cardinality(DueEmails)
            K == Cardinality(batch.faults)
            body == batch.response.body
        IN  /\ body.successCount = N - K
            /\ body.failureCount = K
            /\ body.successCount + body.failureCount = N
            /\ Cardinality({k \in 1..Len(batch.analyticsData) :
                   batch.analyticsData[k].status \in {"sent", "failed"}}) = N
            /\ \A email \in DueEmails : Cardinality(OutcomesOf(email)) = 1

C3_Witness ==
    /\ SendStageDone
    /\ Cardinality(DueEmails) = 2
    /\ Cardinality(batch.faults) = 1
    /\ batch.response.body.successCount = 1
    /\ batch.response.body.failureCount = 1

\* C4: when the content retrieval of one pair of a recipient fails, that pair
\* gets an empty content list, the recipient's digest is still built and
\* handed to the delivery service, and it holds the content the endpoint
\* returned for every pair whose retrieval succeeded.
C4_FailedRetrievalOnlyEmptiesItsPair ==
    \A g \in DOMAIN batch.sendResults :
        LET results == batch.followingsResults[g]
            followings == batch.emailData[g].followings
        IN  (/\ batch.sendResults[g] # Null
             /\ \E j \in DOMAIN results : ~results[j].ok) =>
                /\ \A j \in DOMAIN results :
                      followings[j].contents =
                         JsArray(IF results[j].ok THEN results[j].served ELSE <<>>)
                /\ SesCallsTo(batch.emailData[g].email) # {}

\* C5: a failed send neither aborts the batch nor is retried: every due
\* recipient's send is attempted exactly once whatever happens to the other
\* sends, the delivery service is called at most once per recipient, and a
\* failed send leaves exactly one outcome, failed and carrying the error.
C5_EveryRecipientAttemptedOnce ==
    /\ \A g \in DOMAIN batch.emailData :
          LET email == batch.emailData[g].email
          IN  /\ Count(batch.attempts, email) <= 1
              /\ Cardinality(SesCallsTo(email)) <= 1
    /\ SendStageDone =>
          \A email \in DueEmails :
              /\ Count(batch.attempts, email) = 1
              /\ Cardinality(OutcomesOf(email)) = 1
              /\ \A k \in OutcomesOf(email) :
                    IF email \in batch.faults
                    THEN /\ batch.analyticsData[k].status = "failed"
                         /\ batch.analyticsData[k].error_message # ""
                    ELSE /\ batch.analyticsData[k].status = "sent"
                         /\ Cardinality(SesCallsTo(email)) = 1

\* C5 witness: the first send attempted failed at the delivery service, and
\* another recipient's send was attempted after it and succeeded.
C5_Witness ==
    /\ SendStageDone
    /\ Len(batch.attempts) = 2
    /\ batch.attempts[1] \in batch.faults
    /\ SesCallsTo(batch.attempts[1]) # {}
    /\ batch.attempts[2] \notin batch.faults

C11_Status207IffSomeSendFailed ==
    SendStageDone =>
        LET response == batch.response
            body == response.body
        IN  /\ response.statusCode \in {200, 207}
            /\ response.statusCode = 207 <=> batch.faults # {}
            /\ response.statusCode = 207 <=> body.failureCount > 0
            /\ IsDefined(body.errors) <=> body.failureCount > 0
            /\ IsDefined(body.errors) =>
                  /\ Len(Val(body.errors)) = body.failureCount
                  /\ {Val(body.errors)[k].email : k \in 1..body.failureCount}
                        = batch.faults

\* C11 witness: a run with a failed and a successful send, answered 207 with
\* one entry in errors.
C11_Witness ==
    /\ SendStageDone
    /\ batch.response.statusCode = 207
    /\ batch.response.body.successCount = 1
    /\ IsDefined(batch.response.body.errors)
    /\ Len(Val(batch.response.body.errors)) = 1

(***************************************************************************)
(* Failures of the collaborators of the read endpoints.                    *)
(***************************************************************************)
UpstreamOps == {"isUserExists", "getFollowings", "fetchContent"}
WriteOps == {"redis.set", "index.upsert"}

Calls(r, op) == Cardinality({i \in 1..Len(r.ops) : r.ops[i] = op})

\* C12: when the platform fetcher fails (existence check, followings list
\* fetch or content fetch), the request ends with status 500 and a body
\* {error, message}, no upstream call is made twice, and the request writes
\* neither the cache nor the index.
C12_UpstreamFailureAnswers500 ==
    \A s \in Slots :
        LET r == reqs[s]
        IN  (r.pc = "done" /\ r.failed \in UpstreamOps) =>
                /\ r.response.statusCode = 500
                /\ r.response.body.kind = "error"
                /\ DOMAIN r.response.body = {"kind", "error", "message"}
                /\ \A op \in UpstreamOps : Calls(r, op) <= 1
                /\ \A op \in WriteOps : ~Called(r, op)

\* C12, the part the followings list fetch satisfies
C12_ListFetchFailureAnswers500 ==
    \A s \in Slots :
        LET r == reqs[s]
        IN  (r.pc = "done" /\ r.failed = "getFollowings") =>
                /\ r.response = InternalError("getFollowings")
                /\ \A op \in UpstreamOps : Calls(r, op) <= 1
                /\ \A op \in WriteOps : ~Called(r, op)

\* C13: when the live fetch succeeded and the cache write or the index upsert
\* that follows it fails, the request still answers 200 with the items just
\* fetched and their fetchedAt.
C13_WriteFailureStillAnswers200 ==
    \A s \in Slots :
        LET r == reqs[s]
        IN  (r.pc = "done" /\ r.failed \in WriteOps) =>
                /\ r.response.statusCode = 200
                /\ r.response.body =
                      [kind |-> "entry", items |-> r.items,
                       fetchedAt |-> [type |-> "string", t |-> r.fetchedAt.t]]

\* C14: in the followings endpoint the existence check is the first
\* collaborator call of every request; when it reports that the user does
\* not exist the answer is 404, which no 200 answer equals, and the request
\* has made no other call (no cache read, list fetch, cache write, index
\* search or upsert), whatever the cache holds under the key.
C14_MissingUserIs404BeforeCache ==
    \A s \in Slots :
        LET r == reqs[s]
        IN  (r.pc # "idle" /\ r.endpoint = "followings") =>
                /\ Len(r.ops) > 0 => r.ops[1] = "isUserExists"
                /\ r.exists = "false" =>
                      /\ r.pc = "done"
                      /\ r.response.statusCode = 404
                      /\ r.response.body.kind = "error"
                      /\ r.ops = <<"isUserExists">>

\* C14 witness: a 404 for a key under which the cache holds a live entry
C14_Witness ==
    \E s \in Slots :
        LET r == reqs[s]
        IN  /\ r.pc = "done"
            /\ r.endpoint = "followings"
            /\ r.exists = "false"
            /\ r.response.statusCode = 404
            /\ HeldThroughout(r)

\* C15: a read request (either endpoint) whose platform is not one of
\* MEDIUM, X, INSTAGRAM ends at once with status 400 and the validation
\* error, having made no collaborator call at all: no cache lookup, upstream
\* call, cache write, index search or upsert.
C15_UnknownPlatformIs400 ==
    \A s \in Slots :
        LET r == reqs[s]
        IN  (r.pc # "idle" /\ r.platformName \notin {"MEDIUM", "X", "INSTAGRAM"}) =>
                /\ r.pc = "done"
                /\ r.response.statusCode = 400
                /\ r.response.body = [kind |-> "error", error |-> "validation"]
                /\ r.ops = <<>>

\* C15 witness: both endpoints have rejected the platform "medium"
C15_Witness ==
    /\ \E s \in Slots :
          /\ reqs[s].pc = "done"
          /\ reqs[s].endpoint = "contents"
          /\ reqs[s].platformName = "medium"
          /\ reqs[s].response.statusCode = 400
    /\ \E s \in Slots :
          /\ reqs[s].pc = "done"
          /\ reqs[s].endpoint = "followings"
          /\ reqs[s].platformName = "medium"
          /\ reqs[s].response.statusCode = 400

(***************************************************************************)
(* Properties of the analytics of the send-emails run.                     *)
(***************************************************************************)
\* the filter has judged every preference of the table
FilterDone == batch.pc = "done" /\ batch.i > Len(batch.db) /\ Len(batch.db) > 0

\* the records handed to the insert into email_analytics, over all calls
RecordedRows ==
    UNION {Range(batch.insertCalls[c].rows) : c \in 1..Len(batch.insertCalls)}

\* C16: in every run, every preference the schedule evaluator rejected is
\* handed to the analytics insert as a skipped outcome with followings_count
\* 0 and total_contents_count 0, also in a run in which no preference is due.
C16_RejectedPreferencesRecordedSkipped ==
    FilterDone =>
        \A i \in 1..Len(batch.db) :
            i \notin batch.due =>
                \E row \in RecordedRows :
                    /\ row.pref = i
                    /\ row.email = batch.db[i].email
                    /\ row.status = "skipped"
                    /\ row.followings_count = 0
                    /\ row.total_contents_count = Num(0)

\* C16, the runs in which some preference is due
C16_RecordedSkippedWhenSomeDue ==
    (FilterDone /\ batch.due # {}) =>
        \A i \in 1..Len(batch.db) :
            i \notin batch.due =>
                \E row \in RecordedRows :
                    /\ row.pref = i
                    /\ row.email = batch.db[i].email
                    /\ row.status = "skipped"
                    /\ row.followings_count = 0
                    /\ row.total_contents_count = Num(0)

\* every retrieval of the recipient's pairs failed or returned no item
AllPairsEmpty(g) ==
    \A j \in DOMAIN batch.followingsResults[g] :
        batch.followingsResults[g][j].served = <<>>

AllPairsFailed(g) ==
    \A j \in DOMAIN batch.followingsResults[g] :
        ~batch.followingsResults[g][j].ok

NotDropped(g) ==
    LET email == batch.emailData[g].email
    IN  /\ Count(batch.attempts, email) = 1
        /\ Cardinality(OutcomesOf(email)) = 1
        /\ \A k \in 1..Len(batch.analyticsData) :
              (batch.analyticsData[k].email = email
                  /\ batch.analyticsData[k].status = "skipped") =>
                 batch.analyticsData[k].pref \notin batch.due

\* C17: a due recipient whose retrieved content is empty for every pair (the
\* retrieval failed or returned no item) stays in the send fan-out: a digest
\* is built and handed to the delivery service for it, it gets exactly one
\* sent or failed outcome, and none of its due preferences is recorded as
\* skipped.
C17_EmptyContentStillSent ==
    SendStageDone =>
        \A g \in DOMAIN batch.emailData :
            AllPairsEmpty(g) =>
                /\ NotDropped(g)
                /\ SesCallsTo(batch.emailData[g].email) # {}

\* C17, the recipients every retrieval of which failed
C17_AllFailedStillSent ==
    SendStageDone =>
        \A g \in DOMAIN batch.emailData :
            AllPairsFailed(g) =>
                /\ NotDropped(g)
                /\ SesCallsTo(batch.emailData[g].email) # {}

\* the insert into email_analytics returned an error or threw
InsertFailed ==
    /\ Len(batch.insertCalls) > 0
    /\ batch.insertCalls[1].outcome \in {"error", "throw"}

\* C18: a failure of the analytics insert does not change what the run
\* returns: the summary is returned, with the status, successCount,
\* failureCount and errors the sends alone determine, and the insert is
\* called once, never again.
C18_AnalyticsFailureLeavesSummary ==
    /\ Len(batch.insertCalls) <= 1
    /\ (batch.pc = "done" /\ InsertFailed) =>
          LET response == batch.response
              body == response.body
              N == Cardinality(DueEmails)
              K == Cardinality(batch.faults)
          IN  /\ response.statusCode = IF K > 0 THEN 207 ELSE 200
              /\ body.successCount = N - K
              /\ body.failureCount = K
              /\ IsDefined(body.errors) <=> K > 0
              /\ IsDefined(body.errors) =>
                    {Val(body.errors)[k].email : k \in 1..Len(Val(body.errors))}
                       = batch.faults

\* C18 witness: the insert threw in a run with a failed and a successful
\* send, and the run returned its 207 summary
C18_Witness ==
    /\ batch.pc = "done"
    /\ Len(batch.insertCalls) = 1
    /\ batch.insertCalls[1].outcome = "throw"
    /\ batch.response.statusCode = 207
    /\ batch.response.body.successCount = 1
    /\ batch.response.body.failureCount = 1

(***************************************************************************)
(* The expiry of cache entries.                                            *)
(***************************************************************************)
\* 24 h have passed since the last write of the key
WrittenADayAgo(k) ==
    /\ k \in DOMAIN settled
    /\ NowSeconds >= settled[k].at * SecondsPerHour + 86400

\* every entry of the cache expires 86400 s after its last write
EntriesExpireAfterADay ==
    \A k \in DOMAIN redis :
        /\ k \in DOMAIN settled
        /\ redis[k].expiresAt = settled[k].at * SecondsPerHour + 86400

\* a cache read of a key last written 24 h ago or earlier is a miss, and the
\* request goes on to the upstream fetch
ReadAfterADayMisses ==
    \A s \in Slots :
        (/\ reqs[s].pc = "get"
         /\ reqs'[s].pc # "get"
         /\ WrittenADayAgo(ReqKey(reqs[s]))) =>
            /\ reqs'[s].cached = Null
            /\ reqs'[s].pc = "fetch"

\* C19: every cache write of the two read endpoints carries a TTL of exactly
\* 24 hours (86400 s), no entry is without expiry, and a read of a key whose
\* last write is 24 h old or older is a miss that goes to the upstream fetch.
C19_EveryWriteExpiresAfter24h ==
    /\ []EntriesExpireAfterADay
    /\ [][ReadAfterADayMisses]_vars

\* C19 witness: a request missed a key that a settled read had written 24 h
\* or more before its fetch, went to the upstream and wrote the key anew
C19_Witness ==
    \E s \in Slots :
        LET r == reqs[s]
        IN  /\ r.pc = "done"
            /\ r.prior # Null
            /\ r.prior.at * SecondsPerHour + 86400 <= r.fetchedAt.t * SecondsPerHour
            /\ r.cached = Null
            /\ Called(r, IF r.endpoint = "followings" THEN "getFollowings"
                         ELSE "fetchContent")
            /\ Called(r, "redis.set")
            /\ r.response.statusCode = 200

\* the positions, in the rows of insert call c, of the records of a recipient
\* with a status of the given set
RowsOf(c, email, statuses) ==
    {k \in 1..Len(batch.insertCalls[c].rows) :
        /\ batch.insertCalls[c].rows[k].email = email
        /\ batch.insertCalls[c].rows[k].status \in statuses}

AllEmails == {batch.db[i].email : i \in 1..Len(batch.db)}

RejectedOf(email) ==
    {i \in 1..Len(batch.db) : batch.db[i].email = email /\ i \notin batch.due}

\* C20 as stated: the analytics insert of a run receives at most one outcome
\* record per recipient, whatever mix of due and not-due preferences the
\* recipient has.
C20_OneOutcomePerRecipient ==
    \A c \in 1..Len(batch.insertCalls) :
        \A email \in AllEmails :
            Cardinality(RowsOf(c, email, {"sent", "failed", "skipped"})) <= 1

\* C20 amended: the analytics insert of a run receives, for each recipient,
\* one sent or failed record if the recipient has a due preference (none
\* otherwise) and one skipped record for each of its rejected preferences.
C20_OneSendOutcomePerRecipient ==
    /\ Len(batch.insertCalls) <= 1
    /\ \A c \in 1..Len(batch.insertCalls) :
          \A email \in AllEmails :
              /\ Cardinality(RowsOf(c, email, {"sent", "failed"})) =
                    IF email \in DueEmails THEN 1 ELSE 0
              /\ Cardinality(RowsOf(c, email, {"skipped"})) =
                    Cardinality(RejectedOf(email))
              /\ \A i \in RejectedOf(email) :
                    \E k \in RowsOf(c, email, {"skipped"}) :
                        batch.insertCalls[c].rows[k].pref = i

\* C20 witness: the insert received a skipped and a sent record of the same
\* recipient, who has a rejected and a due preference
C20_Witness ==
    /\ Len(batch.insertCalls) = 1
    /\ \E email \in AllEmails :
          /\ email \in DueEmails
          /\ RejectedOf(email) # {}
          /\ Cardinality(RowsOf(1, email, {"skipped"})) = 1
          /\ Cardinality(RowsOf(1, email, {"sent"})) = 1

(***************************************************************************)
(* Properties of the followings search.                                    *)
(***************************************************************************)
\* a followings request with a non-empty search query
SearchRead(r) ==
    /\ r.pc # "idle"
    /\ r.endpoint = "followings"
    /\ HasSearch(r)

\* the response lists exactly the documents the index query returned
AnswersQuery(r) ==
    /\ Len(r.response.body.items) = Cardinality(r.hits)
    /\ Range(r.response.body.items) = {h.username : h \in r.hits}

\* C21: a followings request with a non-empty search query whose cache read
\* found an entry answers 200 with the result of the filtered index query and
\* the cached fetchedAt, also when the query returns no document, and makes
\* no list fetch, cache write or index upsert.
C21_SearchOnCachedEntry ==
    \A s \in Slots :
        LET r == reqs[s]
        IN  (SearchRead(r) /\ r.cached # Null) =>
                /\ ~Called(r, "getFollowings")
                /\ ~Called(r, "redis.set")
                /\ ~Called(r, "index.upsert")
                /\ r.pc = "done" =>
                      /\ r.response.statusCode = 200
                      /\ r.response.body.fetchedAt = r.cached.fetchedAt
                      /\ AnswersQuery(r)

\* C21 witness: the query returned no document and the answer is the empty
\* list with the fetchedAt of an entry cached earlier
C21_Witness ==
    \E s \in Slots :
        LET r == reqs[s]
        IN  /\ SearchRead(r) /\ r.cached # Null
            /\ r.pc = "done"
            /\ r.hits = {}
            /\ r.response.body.items = <<>>
            /\ r.response.body.fetchedAt.t < now

\* the collaborator calls of a search request that misses the cache
SearchMissOps ==
    <<"isUserExists", "redis.get", "getFollowings", "redis.set",
      "index.upsert", "index.search">>

\* the request's cache read found no entry
MissedCache(r) == Called(r, "redis.get") /\ r.cached = Null

AtRest == \A s \in Slots : reqs[s].pc \in {"idle", "done"}

\* no two requests of the history overlapped: at most one request was
\* started, or the second one was started in the first slot, which the first
\* request had to leave before
NonOverlapping ==
    \/ nstarted <= 1
    \/ /\ nstarted = 2
       /\ reqs[1].pc # "idle" /\ reqs[1].id = 2
       /\ \A s \in Slots \ {1} : reqs[s].pc = "idle"

IsFollowingsKey(k) == k[1] = FOLLOWINGS_KEY_PREFIX[1]

\* the index holds a document for every following of the cache entry of k
Indexed(k) ==
    \A f \in Range(redis[k].value.items) :
        DocId(k[2], SubSeq(k, 3, Len(k)), f) \in DOMAIN index

\* C23: in a history of non-overlapping requests, whenever a followings cache
\* entry exists, the index holds a document for every following the entry
\* lists.
C23_CacheAndIndexPopulatedTogether ==
    (NonOverlapping /\ AtRest) =>
        \A k \in DOMAIN redis : (IsFollowingsKey(k) /\ Live(k)) => Indexed(k)

\* C23, for the entries written by a request whose upsert succeeded
C23_PopulatedTogetherUnlessUpsertFailed ==
    (NonOverlapping /\ AtRest) =>
        \A k \in DOMAIN redis :
            (/\ IsFollowingsKey(k) /\ Live(k)
             /\ \/ settled[k].done
                \/ \E s \in Slots : /\ reqs[s].pc = "done"
                                    /\ reqs[s].id = settled[k].writer
                                    /\ reqs[s].failed = "") =>
                Indexed(k)

(***************************************************************************)
(* Concurrent misses.                                                      *)
(***************************************************************************)
\* a read without search query that missed the cache and completed
CompletedMiss(r) ==
    /\ PlainRead(r) /\ MissedCache(r)
    /\ r.pc = "done" /\ r.failed = ""

EntryOf(r) ==
    [kind |-> "entry", items |-> r.items,
     fetchedAt |-> [type |-> "string", t |-> r.fetchedAt.t]]

\* C24: two concurrent reads that both missed the same key have both called
\* the platform fetcher and both written the cache; each answers with its
\* own fetched items and fetchedAt, and the cache holds the value of the one
\* that wrote last.
C24_ConcurrentMissesLastWriteWins ==
    \A s, t \in Slots :
        LET r == reqs[s]
            q == reqs[t]
            k == ReqKey(r)
            fetch(x) == IF x.endpoint = "followings" THEN "getFollowings"
                        ELSE "fetchContent"
        IN  (/\ s # t
             /\ CompletedMiss(r) /\ CompletedMiss(q)
             /\ r.endpoint = q.endpoint
             /\ ReqKey(q) = k) =>
                /\ Calls(r, fetch(r)) = 1 /\ Calls(q, fetch(q)) = 1
                /\ Calls(r, "redis.set") = 1 /\ Calls(q, "redis.set") = 1
                /\ r.response = [statusCode |-> 200, body |-> EntryOf(r)]
                /\ q.response = [statusCode |-> 200, body |-> EntryOf(q)]
                /\ settled[k].writer \in {r.id, q.id}
                /\ Live(k) =>
                      redis[k].value =
                         IF settled[k].writer = r.id THEN EntryOf(r)
                         ELSE EntryOf(q)

\* C24 witness: two contents reads missed the same key and fetched different
\* lists; the cache holds the list of the second writer, the first writer
\* answered with its own
C24_Witness ==
    \E s, t \in Slots :
        LET r == reqs[s]
            q == reqs[t]
            k == ReqKey(r)
        IN  /\ s # t
            /\ CompletedMiss(r) /\ CompletedMiss(q)
            /\ r.endpoint = "contents" /\ q.endpoint = "contents"
            /\ ReqKey(q) = k
            /\ r.items # q.items
            /\ settled[k].writer = q.id
            /\ Live(k) /\ redis[k].value.items = q.items
            /\ r.response.body.items = r.items

C24_WitnessFollowings ==
    \E s, t \in Slots :
        LET r == reqs[s]
            q == reqs[t]
            k == ReqKey(r)
        IN  /\ s # t
            /\ CompletedMiss(r) /\ CompletedMiss(q)
            /\ r.endpoint = "followings" /\ q.endpoint = "followings"
            /\ ReqKey(q) = k
            /\ r.items # q.items
            /\ settled[k].writer = q.id
            /\ Live(k) /\ redis[k].value.items = q.items
            /\ r.response.body.items = r.items

(***************************************************************************)
(* Termination of the send-emails run.                                     *)
(***************************************************************************)
\* the run has returned a response of the handler's own
ReturnedSummary ==
    /\ batch.pc = "done"
    /\ batch.response # Null
    /\ batch.response.statusCode \in {200, 207, 500}

\* the summary of a run that sent was produced after every send settled
SummaryAfterSends ==
    (batch.pc = "done" /\ Len(batch.emailData) > 0) =>
        /\ \A g \in DOMAIN batch.sendResults : batch.sendResults[g] # Null
        /\ Len(batch.attempts) = Len(batch.emailData)
        /\ batch.response.body.processed = Len(batch.emailData)

SecondRunFiltered ==
    /\ batch.run = "second"
    /\ batch.prev.filtered
    /\ batch.i > Len(batch.db)
    /\ now = batch.startedAt

\* C26: the schedule evaluation has no memory of earlier runs: when the
\* trigger fires a second time within the same hour, every preference the
\* first run judged due is judged due again, and every due recipient gets a
\* send attempt in the second run as it did in the first.
C26_SecondRunOfTheHourSendsAgain ==
    SecondRunFiltered =>
        /\ batch.due = batch.prev.due
        /\ batch.pc = "done" =>
              \A email \in DueEmails :
                  /\ email \in batch.prev.attempts
                  /\ Count(batch.attempts, email) = 1

\* C26 witness: a recipient to whom the first run sent a digest has been sent
\* a digest by the second run of the same hour as well
C26_Witness ==
    /\ SecondRunFiltered
    /\ batch.pc = "done"
    /\ \E email \in DueEmails :
          /\ email \in batch.prev.sent
          /\ SesCallsTo(email) # {}
          /\ email \notin batch.faults

\* the specified predicate of a preference, evaluated at the single instant t
DueAt(frequency, sendTime, timezone, t) ==
    /\ LocalHour(t, timezone) = SendHour(sendTime)
    /\ \/ frequency = "daily"
       \/ frequency = "weekly" /\ LocalWeekday(t, timezone) = 1
       \/ frequency = "monthly" /\ LocalDayOfMonth(t, timezone) = 1

\* C27: one evaluation is a function of a single instant: on a runtime that
\* writes midnight as hour 0, the result of a weekly or monthly evaluation
\* equals the specified predicate at one instant of the evaluation, also
\* when the clock passes an hour or day boundary while it runs.
C27_EvaluationUsesOneInstant ==
    (/\ ev.pc = "done"
     /\ ev.frequency \in {"weekly", "monthly"}
     /\ hourCycle = "h23") =>
        \E t \in ev.tHour..ev.tDay :
            ev.result <=> DueAt(ev.frequency, ev.sendTime, ev.timezone, t)

\* C27, when the clock does not move between the reads of the evaluation
C27_OneInstantWithoutDrift ==
    (/\ ev.pc = "done"
     /\ hourCycle = "h23"
     /\ ev.tHour = ev.tDay) =>
        (ev.result <=> DueAt(ev.frequency, ev.sendTime, ev.timezone, ev.tHour))

(***************************************************************************)
(* Properties of the content retrieval of the send-emails run.             *)
(***************************************************************************)
\* the retrievals the run has issued, as (recipient, pair) positions
Retrieved ==
    {gj \in UNION {{<<g, j>> : j \in DOMAIN batch.followingsResults[g]} :
                      g \in DOMAIN batch.followingsResults} :
        batch.followingsResults[gj[1]][gj[2]] # Null}

\* C28: every content retrieval issued for a due preference carries a
\* platform key the content endpoint's validation accepts: the endpoint
\* never answers it 400, and when the endpoint answers 200 the retrieval
\* succeeds instead of falling back to the empty list.
C28_RetrievalPassesValidation ==
    \A gj \in Retrieved :
        LET result == batch.followingsResults[gj[1]][gj[2]]
        IN  /\ result.platform \in {"MEDIUM", "X", "INSTAGRAM"}
            /\ result.status # 400
            /\ result.status = 200 => result.ok

\* C28, for the preferences whose platform column holds the endpoint's
\* spelling
C28_UppercasePlatformPassesValidation ==
    \A gj \in Retrieved :
        LET result == batch.followingsResults[gj[1]][gj[2]]
        IN  result.platform \in {"MEDIUM", "X", "INSTAGRAM"} =>
                /\ result.status # 400
                /\ result.status = 200 => result.ok

(***************************************************************************)
(* Properties of the counts of an outcome and of the subject line.         *)
(***************************************************************************)
RECURSIVE ReturnedItems(_)
\* the number of items the content endpoint returned over the successfully
\* retrieved pairs of a recipient
ReturnedItems(followings) ==
    IF followings = <<>> THEN 0
    ELSE LET n == Len(followings)
         IN  ReturnedItems(SubSeq(followings, 1, n - 1))
                 + (IF followings[n].ok THEN Len(followings[n].served) ELSE 0)

\* the position of a recipient among the grouped recipients
GroupOf(email) ==
    CHOOSE g \in 1..Len(batch.emailData) : batch.emailData[g].email = email

\* C29: in every sent or failed outcome, total_contents_count is the number
\* of items the content endpoint returned over the recipient's successfully
\* retrieved pairs, followings_count is the number of the recipient's due
\* preferences, and the subject of the message handed to SES is built from
\* the same total.
C29_OutcomeCountsAndSubject ==
    \A e \in DueEmails : \A k \in OutcomesOf(e) :
        LET total == ReturnedItems(batch.emailData[GroupOf(e)].followings)
        IN  /\ batch.analyticsData[k].total_contents_count = Num(total)
            /\ batch.analyticsData[k].followings_count = Len(DuePrefsOf(e))
            /\ \A c \in SesCallsTo(e) : batch.sesCalls[c].subject = Subject(Num(total))

\* C29, for followings_count alone, and for the total of the recipients none
\* of whose pairs was retrieved
C29_CountsWhenNothingRetrieved ==
    \A e \in DueEmails : \A k \in OutcomesOf(e) :
        LET followings == batch.emailData[GroupOf(e)].followings
        IN  /\ batch.analyticsData[k].followings_count = Len(DuePrefsOf(e))
            /\ (\A j \in 1..Len(followings) : ~followings[j].ok) =>
                   /\ batch.analyticsData[k].total_contents_count = Num(0)
                   /\ \A c \in SesCallsTo(e) :
                          batch.sesCalls[c].subject = <<"Your Content Digest">>

(***************************************************************************)
(* Reads served from the cache.                                            *)
(***************************************************************************)
\* the request of slot s that takes the step, if one does: after its last
\* step the slot is idle and the request is the one before the step
Stepping(s) == IF reqs'[s].pc = "idle" THEN reqs[s] ELSE reqs'[s]

\* the request's cache read found an entry
ServedFromCache(r) == r.pc # "idle" /\ r.cached # Null

\* a request that found an entry has written neither cache nor index, and
\* no contents request has written the index
NoWriteOnHit ==
    \A s \in Slots :
        LET r == reqs[s]
        IN  /\ ServedFromCache(r) =>
                ~Called(r, "redis.set") /\ ~Called(r, "index.upsert")
            /\ (r.pc # "idle" /\ r.endpoint = "contents") =>
                ~Called(r, "index.upsert")

\* no step of a request that found an entry changes the cache (values,
\* fetchedAt, expiry) or the index, and no step of a contents request
\* changes the index
HitStepsChangeNothing ==
    \A s \in Slots :
        reqs'[s] # reqs[s] =>
            /\ ServedFromCache(Stepping(s)) => redis' = redis /\ index' = index
            /\ (Stepping(s).pc # "idle" /\ Stepping(s).endpoint = "contents") =>
                   index' = index

\* C30: a read served from the cache (a contents hit, a followings hit with
\* or without search query) makes no cache write and no index upsert, and
\* the stored value, its fetchedAt and its expiry are the same after each of
\* its steps as before; the contents endpoint never writes the index.
C30_CacheHitChangesNothing ==
    []NoWriteOnHit /\ [][HitStepsChangeNothing]_vars

\* C30 witness: a contents read answered 200 from an entry written twelve
\* hours earlier, and the cache still holds that entry with the expiry of
\* its write
C30_Witness ==
    \E s \in Slots :
        LET r == reqs[s]
            k == ReqKey(r)
        IN  /\ ServedFromCache(r) /\ r.endpoint = "contents"
            /\ r.pc = "done" /\ r.response.statusCode = 200
            /\ r.ops = <<"redis.get">>
            /\ r.cached.fetchedAt.t + TickHours = now
            /\ Live(k) /\ redis[k].value = r.cached
            /\ redis[k].expiresAt =
                   r.cached.fetchedAt.t * SecondsPerHour + TTL_SECONDS
            /\ index = EmptyMap

(***************************************************************************)
(* Search over an index that outlived its cache entry.  The handlers only  *)
(* upsert into the index, so the documents of a fetch stay after the cache *)
(* entry of that fetch has expired.  StaleSpec starts the read endpoints   *)
(* in such a state: the followings of MEDIUM / alice were fetched and      *)
(* indexed more than a day ago and the cache entry is gone.                *)
(***************************************************************************)
\* the followings the platform listed at the fetch of more than a day ago
StaleFollowings == <<"carl", "dave">>

\* the index after storeFollowingsForSearch("MEDIUM", "alice", StaleFollowings)
\* on an empty index
StaleIndex ==
    [id \in {DocId("MEDIUM", <<"alice">>, f) : f \in Range(StaleFollowings)} |->
        [username |-> id[Len(id)], platformName |-> "MEDIUM",
         parentUsername |-> <<"alice">>]]

StaleInit ==
    /\ now = 0
    /\ hourCycle = "h23"
    /\ redis = EmptyMap
    /\ index = StaleIndex
    /\ reqs = [s \in Slots |-> IdleReq]
    /\ nstarted = 0
    /\ settled = EmptyMap
    /\ ev = IdleEv
    /\ batch = IdleBatch

StaleSpec == StaleInit /\ [][Next]_vars

\* a search request whose cache read found an entry and that was answered
AnsweredFromCachedEntry(r) ==
    /\ SearchRead(r) /\ r.cached # Null
    /\ r.pc = "done" /\ r.response.statusCode = 200

\* C31: every following returned by a search answered while a cache entry
\* exists is a member of the followings list stored in the cache for that
\* platform and username, also after the entry expired and was repopulated
\* by a fetch that no longer lists some indexed followings.
C31_SearchReturnsOnlyCachedFollowings ==
    \A s \in Slots :
        LET r == reqs[s]
        IN  AnsweredFromCachedEntry(r) =>
                Range(r.response.body.items) \subseteq Range(r.cached.items)

\* C31, for what the index guarantees: every following returned is the
\* following of a document stored for that platform and username that
\* matches the query
C31_SearchReturnsIndexedFollowings ==
    \A s \in Slots :
        LET r == reqs[s]
        IN  AnsweredFromCachedEntry(r) =>
                \A f \in Range(r.response.body.items) :
                    /\ DocId(r.platformName, r.username, f) \in DOMAIN index
                    /\ QueryMatches(Val(r.searchQuery), [username |-> f])

(***************************************************************************)
(* Cache keys.  username is z.string() and since is read from the query    *)
(* string unvalidated, so both may contain the ':' that separates the      *)
(* parts of a key.  KeySpec runs the read endpoints over such inputs: a    *)
(* string is the sequence of its ':'-separated segments.                   *)
(***************************************************************************)
KeyTargets == {<<"MEDIUM", <<"bob">>>>, <<"MEDIUM", <<"bob", "today">>>>}
KeySinceParams == {Undefined, Some(<<"today", "all">>)}

KeyNext ==
    \/ \E s \in Slots, target \in KeyTargets :
         \/ \E since \in KeySinceParams :
              StartRequest(s, "contents", target[1], target[2], since, Undefined)
         \/ \E search \in SearchParams :
              StartRequest(s, "followings", target[1], target[2], Undefined, search)
    \/ \E s \in Slots : UserExists(s)
    \/ \E s \in Slots : CacheGet(s)
    \/ \E s \in Slots : Search(s)
    \/ \E s \in Slots : Fetch(s)
    \/ \E s \in Slots : CacheSet(s)
    \/ \E s \in Slots : Upsert(s)
    \/ \E s \in Slots : Return(s)
    \/ Tick

KeySpec == Init /\ [][KeyNext]_vars

\* two requests ask for the same thing: endpoint, platform, username and,
\* for contents, since-filter
SameQuestion(r, q) ==
    /\ r.endpoint = q.endpoint
    /\ r.platformName = q.platformName
    /\ r.username = q.username
    /\ r.endpoint = "contents" => r.since = q.since

\* a request that passed validation
Keyed(r) == r.pc # "idle" /\ SchemaOk(r.platformName)

\* requests that ask for different things use different keys
KeysInjective ==
    \A s, t \in Slots :
        (Keyed(reqs[s]) /\ Keyed(reqs[t]) /\ ReqKey(reqs[s]) = ReqKey(reqs[t])) =>
            SameQuestion(reqs[s], reqs[t])

\* no request is served the entry that a request asking for something else
\* wrote
NoForeignHit ==
    \A s, t \in Slots :
        LET r == reqs[s]
            q == reqs[t]
        IN  (/\ Keyed(r) /\ Keyed(q)
             /\ r.cached # Null
             /\ Called(q, "redis.set") /\ q.failed # "redis.set"
             /\ r.cached = EntryOf(q)) =>
                SameQuestion(r, q)

\* C32: two contents requests that differ in platform, username or
\* since-filter, and two followings requests that differ in platform or
\* username, never use the same cache key, and no hit returns what was
\* fetched for another user or another filter, for every username and since
\* value the endpoints accept.
C32_CacheKeyInjective == KeysInjective /\ NoForeignHit

\* C32, for the followings endpoint alone
C32_FollowingsKeyInjective ==
    \A s, t \in Slots :
        LET r == reqs[s]
            q == reqs[t]
        IN  (/\ Keyed(r) /\ Keyed(q)
             /\ r.endpoint = "followings" \/ q.endpoint = "followings"
             /\ ReqKey(r) = ReqKey(q)) =>
                SameQuestion(r, q)

====
